---- MODULE Spec2Model ----
(* Field-force tracker: the check-in state machine (create check-in,      *)
(* checkout, active lookup) of the three implementations in the           *)
(* repository:                                                            *)
(*   "first" - backend/routes/checkin.js, the first router (lines 1-206)  *)
(*   "tx"    - backend/routes/checkin.js, the transactional router        *)
(*             (lines 208-493) on the single better-sqlite3 connection    *)
(*   "next"  - the Next.js route handlers over the in-memory store        *)
(* Every `await pool.execute(...)` of the Express handlers is a point     *)
(* where another request may run: an action is the code from one await to *)
(* the next, the statement it issues included (execute runs the statement *)
(* synchronously inside the Promise constructor).                         *)
(*                                                                        *)
(* Units: coordinates are integers in thousandths of a degree, distances  *)
(* are integers in metres before rounding and in hundredths of a km       *)
(* after `Math.round(d * 100) / 100`, instants are ticks of the clock.    *)
EXTENDS Integers, Sequences, FiniteSets, Bags, TLC

(* Bounds of the exploration *)

MaxInFlight == 3
MaxRows == 2
MaxTime == 1

(* JavaScript / SQL values: a tag and, for a number, its value *)

Num(n) == [t |-> "num", v |-> n]
UNDEF == [t |-> "undef", v |-> 0]
NULLV == [t |-> "null", v |-> 0]
NAN == [t |-> "nan", v |-> 0]
STR == [t |-> "str", v |-> 0]

NoTime == 0 - 1

IsNum(x) == x.t = "num"

(* JavaScript truthiness, as used by `!client_id` and `latitude && longitude` *)
Truthy(x) ==
    CASE x.t = "num" -> x.v # 0
      [] x.t = "str" -> TRUE
      [] OTHER -> FALSE

(* parseFloat: a number is itself, the non-numeric string and null give NaN *)
parseFloat(x) == IF x.t = "num" THEN x ELSE NAN

(* `a || null` *)
OrNull(x) == IF Truthy(x) THEN x ELSE NULLV

(* Seed data *)

Variants == {"first", "tx", "next"}

Employees == {2, 3}

STATUS == [CHECKED_IN |-> "checked_in", CHECKED_OUT |-> "checked_out"]

(* clients: 1 is the seed's ABC Corp (28.4946, 77.0887); 2 lies near the  *)
(* origin; 3 was created without coordinates                              *)
clients ==
    [c \in {1, 2, 3} |->
        CASE c = 1 -> [id |-> 1, latitude |-> Num(28495), longitude |-> Num(77089)]
          [] c = 2 -> [id |-> 2, latitude |-> Num(3), longitude |-> Num(4)]
          [] c = 3 -> [id |-> 3, latitude |-> NULLV, longitude |-> NULLV]]

employeeClients == {<<2, 1>>, <<2, 2>>, <<2, 3>>, <<3, 2>>}

isAssigned(employeeId, clientId) ==
    IsNum(clientId) /\ <<employeeId, clientId.v>> \in employeeClients

ClientRows(clientId) ==
    IF IsNum(clientId) /\ clientId.v \in DOMAIN clients
    THEN {clients[clientId.v]} ELSE {}

(* Geodistance *)

Abs(n) == IF n < 0 THEN 0 - n ELSE n

RECURSIVE SqrtFrom(_, _)
SqrtFrom(n, r) == IF (r + 1) * (r + 1) > n THEN r ELSE SqrtFrom(n, r + 1)

RECURSIVE SqrtBetween(_, _, _)
SqrtBetween(n, lo, hi) ==
    IF hi - lo <= 4 THEN SqrtFrom(n, lo)
    ELSE LET mid == (lo + hi) \div 2
         IN IF mid * mid <= n THEN SqrtBetween(n, mid, hi)
            ELSE SqrtBetween(n, lo, mid)

(* floor of the square root, 0 <= n < 46340 * 46340 *)
Sqrt(n) == SqrtBetween(n, 0, 46340)

(* toRad: thousandths of a degree to milliradians *)
toRad(deg) == (deg * 17453) \div 1000000

(* cosine in thousandths, by its series to the fourth order *)
CosMilli(deg) ==
    LET x == toRad(Abs(deg))
        x2 == x * x
    IN 1000 - (x2 \div 2000) + (((x2 \div 1000) * (x2 \div 1000)) \div 24000)

EarthRadiusKm == 6371

(* metres on the ground per thousandth of a degree: R * pi / 180 *)
MetresPerUnit == (EarthRadiusKm * 17453) \div 1000000

(* the distance with the longitudes added instead of subtracted *)
calculateDistanceOfSum(lat1, lon1, lat2, lon2) ==
    LET dLat == lat2 - lat1
        dLon == lon2 + lon1
        cc == (CosMilli(lat1) * CosMilli(lat2)) \div 1000
    IN IF Abs(dLat) <= 40 /\ Abs(dLon) <= 40
       THEN LET y == MetresPerUnit * dLat
                y2 == y * y
                x2 == (((MetresPerUnit * dLon) * (MetresPerUnit * dLon)) \div 1000) * cc
            IN Sqrt(y2 + x2)
       ELSE LET yk == (MetresPerUnit * Abs(dLat)) \div 1000
                xk == (((MetresPerUnit * Abs(dLon)) \div 1000) * cc) \div 1000
                yc == IF yk > 20000 THEN 20000 ELSE yk
                xc == IF xk > 20000 THEN 20000 ELSE xk
            IN 1000 * Sqrt(yc * yc + xc * xc)

(* the distance with the cosine of the first latitude taken twice *)
calculateDistanceOfFirst(lat1, lon1, lat2, lon2) ==
    LET dLat == lat2 - lat1
        dLon == lon2 - lon1
        cc == (CosMilli(lat1) * CosMilli(lat1)) \div 1000
    IN IF Abs(dLat) <= 40 /\ Abs(dLon) <= 40
       THEN LET y == MetresPerUnit * dLat
                y2 == y * y
                x2 == (((MetresPerUnit * dLon) * (MetresPerUnit * dLon)) \div 1000) * cc
            IN Sqrt(y2 + x2)
       ELSE LET yk == (MetresPerUnit * Abs(dLat)) \div 1000
                xk == (((MetresPerUnit * Abs(dLon)) \div 1000) * cc) \div 1000
                yc == IF yk > 20000 THEN 20000 ELSE yk
                xc == IF xk > 20000 THEN 20000 ELSE xk
            IN 1000 * Sqrt(yc * yc + xc * xc)

(* The haversine distance in metres. For the separations of a check-in    *)
(* (a few km) sin(d/2)^2 is (d/2)^2 and c is 2*sqrt(a), so                *)
(*   R*c = R * sqrt(dLat^2 + cos(lat1)*cos(lat2)*dLon^2);                 *)
(* larger separations are evaluated in km.                                *)
calculateDistance(lat1, lon1, lat2, lon2) ==
    LET dLat == lat2 - lat1
        dLon == lon2 - lon1
        cc == (CosMilli(lat1) * CosMilli(lat2)) \div 1000
    IN IF Abs(dLat) <= 40 /\ Abs(dLon) <= 40
       THEN LET y == MetresPerUnit * dLat
                y2 == y * y
                x2 == (((MetresPerUnit * dLon) * (MetresPerUnit * dLon)) \div 1000) * cc
            IN Sqrt(y2 + x2)
       ELSE LET yk == (MetresPerUnit * Abs(dLat)) \div 1000
                xk == (((MetresPerUnit * Abs(dLon)) \div 1000) * cc) \div 1000
                yc == IF yk > 20000 THEN 20000 ELSE yk
                xc == IF xk > 20000 THEN 20000 ELSE xk
            IN 1000 * Sqrt(yc * yc + xc * xc)

(* Math.round(d * 100) / 100 of a distance in metres: hundredths of a km *)
RoundKm(metres) == (metres + 5) \div 10

WarningThreshold == 50

(* the distance block's value: the rounded distance of two numeric points, *)
(* NaN when parseFloat gave NaN for one of the four                        *)
RoundedDistance(lat, lng, clientLat, clientLng) ==
    IF IsNum(lat) /\ IsNum(lng) /\ IsNum(clientLat) /\ IsNum(clientLng)
    THEN Num(RoundKm(calculateDistance(lat.v, lng.v, clientLat.v, clientLng.v)))
    ELSE NAN

(* the comparison with the bound included *)
IsFarOrEqual(dist) == IsNum(dist) /\ dist.v >= WarningThreshold

(* `distanceFromClient > 0.5` *)
IsFar(dist) == IsNum(dist) /\ dist.v > WarningThreshold

(* what SQLite keeps of a bound value: a NaN is stored as NULL *)
SqlBind(x) == IF x.t = "nan" THEN NULLV ELSE x

(* ---------------------------------------------------------------------- *)
(* State *)

VARIABLES
    variant,    \* which implementation serves the requests
    checkins,   \* the checkins table / array: row i has id i
    inTx,       \* the connection has an open transaction
    txBase,     \* the table as it was at BEGIN (what ROLLBACK restores)
    reqs,       \* the requests in flight: a bag of their positions and locals
    last,       \* the response sent by the step just taken, if any
    now         \* the clock

vars == <<variant, checkins, inTx, txBase, reqs, last, now>>

NoResp ==
    [op |-> "none", emp |-> 0, client_id |-> UNDEF, latitude |-> UNDEF,
     longitude |-> UNDEF, status |-> 0, message |-> "", id |-> 0,
     dist |-> NULLV, far |-> FALSE]

(* the answers of the handlers: HTTP status and which message *)
Created == [status |-> 201, message |-> "Checked in successfully"]
CheckedOutOk == [status |-> 200, message |-> "Checked out successfully"]
Invalid == [status |-> 400, message |-> "invalid input"]
AlreadyActive == [status |-> 400, message |-> "You already have an active check-in"]
NoActive400 == [status |-> 400, message |-> "No active check-in found"]
NotAssigned == [status |-> 403, message |-> "You are not assigned to this client"]
NoActive == [status |-> 404, message |-> "No active check-in found"]
Failed == [status |-> 500, message |-> "failed"]
ActiveOk == [status |-> 200, message |-> "active"]

(* a request body with the authenticated employee *)
Body(e, c, lat, lng) ==
    [emp |-> e, client_id |-> c, latitude |-> lat, longitude |-> lng]

CoordPairs ==
    { <<UNDEF, UNDEF>>, <<Num(0), Num(0)>>, <<Num(1), Num(8)>>,
      <<Num(28500), Num(77090)>>, <<Num(28495), UNDEF>>,
      <<UNDEF, Num(77089)>>, <<Num(91000), Num(77089)>>,
      <<Num(28495), Num(181000)>>, <<STR, Num(77089)>>, <<Num(28495), STR>> }

ClientIds == {UNDEF, Num(0), Num(1), Num(2), Num(3), Num(9)}

(* the bodies of the concurrent runs: a double-submitted valid check-in *)
RaceBodies ==
    { Body(2, Num(1), Num(28500), Num(77090)),
      Body(3, Num(1), Num(28500), Num(77090)),
      Body(3, Num(2), Num(1), Num(8)) }

(* the bodies of the runs of one request at a time: every body of        *)
(* employee 2, and those above                                           *)
AllBodies ==
    { Body(2, c, p[1], p[2]) : c \in ClientIds, p \in CoordPairs } \cup RaceBodies

InFlight == BagToSet(reqs)

HasSlot == BagCardinality(reqs) < MaxInFlight

InFlightCreates ==
    BagCardinality([r \in {q \in InFlight : q.op = "create"} |-> reqs[r]])

(* room in the table for the insert of one more create request *)
RoomForCreate == Len(checkins) + InFlightCreates < MaxRows

(* the locals of a request that has just come in *)
Started(op, b) ==
    [op |-> op, pc |-> "start", emp |-> b.emp, client_id |-> b.client_id,
     latitude |-> b.latitude, longitude |-> b.longitude, rows |-> {},
     dist |-> NULLV, far |-> FALSE, id |-> 0]

StartedCheckout(e) == Started("checkout", Body(e, UNDEF, UNDEF, UNDEF))

(* the answer of GET /active: `rows.length > 0 ? rows[0] : null`, kept as *)
(* the id of the row, 0 for null                                          *)
ActiveData(e, rows) ==
    [Started("active", Body(e, UNDEF, UNDEF, UNDEF))
        EXCEPT !.rows = rows,
               !.id = IF rows = {} THEN 0 ELSE (CHOOSE row \in rows : TRUE).id]

Response(r, answer) ==
    [op |-> r.op, emp |-> r.emp, client_id |-> r.client_id,
     latitude |-> r.latitude, longitude |-> r.longitude,
     status |-> answer.status, message |-> answer.message,
     id |-> r.id, dist |-> r.dist, far |-> r.far]

One(r) == SetToBag({r})

(* a request that comes in and reaches its first await *)
Enter(r) ==
    /\ reqs' = reqs (+) One(r)
    /\ last' = NoResp

(* a request that comes in and is answered before any await *)
Answer(r, answer) ==
    /\ reqs' = reqs
    /\ last' = Response(r, answer)

(* the request r in flight goes on to its next await as r2 *)
Goto(r, r2) ==
    /\ reqs' = (reqs (-) One(r)) (+) One(r2)
    /\ last' = NoResp

(* the request r in flight answers, with the locals r2, and leaves *)
Respond(r, r2, answer) ==
    /\ reqs' = reqs (-) One(r)
    /\ last' = Response(r2, answer)

(* ---------------------------------------------------------------------- *)
(* The checkins table *)

Row(e, c, lat, lng, dist) ==
    [id |-> Len(checkins) + 1, employee_id |-> e, client_id |-> c,
     checkin_time |-> now, checkout_time |-> NoTime, latitude |-> lat,
     longitude |-> lng, distance_from_client |-> dist,
     status |-> STATUS.CHECKED_IN]

(* the column default of checkins.checkin_time, for an INSERT that does   *)
(* not name the column: the current timestamp                            *)
CurrentTimestamp == now

RowIds == DOMAIN checkins

(* WHERE employee_id = ? AND status = 'checked_in' *)
ActiveIds(e) ==
    {i \in RowIds : checkins[i].employee_id = e
                      /\ checkins[i].status = STATUS.CHECKED_IN}

(* WHERE employee_id = ? *)
EmployeeIds(e) == {i \in RowIds : checkins[i].employee_id = e}

(* ORDER BY checkin_time DESC LIMIT 1: the rows that may come first; rows *)
(* of equal checkin_time come in an order SQL leaves open                 *)
MostRecent(S) ==
    {i \in S : \A j \in S : checkins[j].checkin_time <= checkins[i].checkin_time}

(* what a handler keeps of a row a SELECT * returned: its id and the     *)
(* status it had when it was read                                         *)
Read(i) == [id |-> i, status |-> checkins[i].status]

ReadAll(S) == {Read(i) : i \in S}

(* the result sets a LIMIT 1 query may return: one of the first rows, or none *)
LimitOne(S) == IF S = {} THEN {{}} ELSE {{Read(i)} : i \in S}

(* UPDATE checkins SET checkout_time = datetime('now'), status = 'checked_out' *)
CheckedOut(row) ==
    [row EXCEPT !.checkout_time = now, !.status = STATUS.CHECKED_OUT]

(* ---------------------------------------------------------------------- *)
(* "first": backend/routes/checkin.js, router.post('/')                    *)
(* Statements on employee_clients and clients, tables no request writes,  *)
(* are taken together with the code around them, and so is the answer     *)
(* with the last statement before it: the points where requests           *)
(* interleave are the awaits between the statements on checkins and       *)
(* BEGIN, COMMIT and ROLLBACK.                                            *)

(* the first router's distance block *)
firstDistance(r) ==
    LET cl == ClientRows(r.client_id)
    IN IF cl # {} /\ Truthy(r.latitude) /\ Truthy(r.longitude)
       THEN LET client == CHOOSE c \in cl : TRUE
            IN IF Truthy(client.latitude) /\ Truthy(client.longitude)
               THEN RoundedDistance(parseFloat(r.latitude), parseFloat(r.longitude),
                                    parseFloat(client.latitude),
                                    parseFloat(client.longitude))
               ELSE NULLV
       ELSE NULLV

(* better-sqlite3 refuses to bind undefined: the statement throws *)
BindThrows(r) == r.latitude = UNDEF \/ r.longitude = UNDEF

firstPost(b) ==
    /\ variant = "first"
    /\ HasSlot
    /\ RoomForCreate
    /\ LET r == Started("create", b)
       IN IF ~Truthy(b.client_id)
          THEN Answer(r, Invalid)
          ELSE IF ~isAssigned(b.emp, b.client_id)
          THEN Answer(r, NotAssigned)
          ELSE Enter([r EXCEPT !.pc = "activeCheckins", !.rows = ReadAll(ActiveIds(b.emp))])
    /\ UNCHANGED <<variant, checkins, inTx, txBase, now>>

(* the create that inserts before it looks at the rows it read *)
firstPostInsertFirst(r) ==
    LET dist == firstDistance(r)
        r2 == [r EXCEPT !.dist = dist, !.far = IsFar(dist)]
    IN /\ variant = "first"
       /\ r.op = "create"
       /\ r.pc = "activeCheckins"
       /\ IF BindThrows(r)
          THEN /\ Respond(r, r2, Failed)
               /\ UNCHANGED checkins
          ELSE /\ checkins' = Append(checkins,
                       [Row(r.emp, r.client_id.v, r.latitude, r.longitude, SqlBind(dist))
                           EXCEPT !.checkin_time = CurrentTimestamp])
               /\ IF r.rows # {}
                  THEN Respond(r, r, AlreadyActive)
                  ELSE Respond(r, [r2 EXCEPT !.id = Len(checkins) + 1], Created)
       /\ UNCHANGED <<variant, inTx, txBase, now>>

firstPostActive(r) ==
    LET dist == firstDistance(r)
        r2 == [r EXCEPT !.dist = dist, !.far = IsFar(dist)]
    IN /\ variant = "first"
       /\ r.op = "create"
       /\ r.pc = "activeCheckins"
       /\ IF r.rows # {}
          THEN /\ Respond(r, r, AlreadyActive)
               /\ UNCHANGED checkins
          ELSE IF BindThrows(r)
          THEN /\ Respond(r, r2, Failed)
               /\ UNCHANGED checkins
          ELSE /\ checkins' = Append(checkins,
                       [Row(r.emp, r.client_id.v, r.latitude, r.longitude, SqlBind(dist))
                           EXCEPT !.checkin_time = CurrentTimestamp])
               /\ Respond(r, [r2 EXCEPT !.id = Len(checkins) + 1], Created)
       /\ UNCHANGED <<variant, inTx, txBase, now>>

(* "first": router.put('/checkout') *)

firstCheckout(e) ==
    /\ variant = "first"
    /\ HasSlot
    /\ \E rows \in LimitOne(MostRecent(EmployeeIds(e))) :
          Enter([StartedCheckout(e) EXCEPT !.pc = "activeCheckins", !.rows = rows])
    /\ UNCHANGED <<variant, checkins, inTx, txBase, now>>

(* UPDATE ... WHERE id = ? *)
firstUpdate(i) ==
    IF i \in RowIds THEN [checkins EXCEPT ![i] = CheckedOut(@)] ELSE checkins

firstCheckoutFound(r) ==
    /\ variant = "first"
    /\ r.op = "checkout"
    /\ r.pc = "activeCheckins"
    /\ IF r.rows = {}
       THEN /\ Respond(r, r, NoActive)
            /\ UNCHANGED checkins
       ELSE LET i == (CHOOSE row \in r.rows : TRUE).id
            IN /\ checkins' = firstUpdate(i)
               /\ Respond(r, [r EXCEPT !.id = i], CheckedOutOk)
    /\ UNCHANGED <<variant, inTx, txBase, now>>

(* "first": router.get('/active'); the INNER JOIN keeps the rows whose    *)
(* client exists                                                          *)
firstActive(e) ==
    /\ variant = "first"
    /\ \E rows \in LimitOne(MostRecent({i \in ActiveIds(e) :
                                          checkins[i].client_id \in DOMAIN clients})) :
          Answer(ActiveData(e, rows), ActiveOk)
    /\ UNCHANGED <<variant, checkins, inTx, txBase, now>>

(* ---------------------------------------------------------------------- *)
(* "tx": backend/routes/checkin.js, the transactional router. All requests *)
(* share the one better-sqlite3 connection, so BEGIN, COMMIT and ROLLBACK  *)
(* act on the connection's transaction, whoever opened it.                 *)

isValidLatitude(v) == IsNum(v) /\ v.v >= 0 - 90000 /\ v.v <= 90000

isValidLongitude(v) == IsNum(v) /\ v.v >= 0 - 180000 /\ v.v <= 180000

(* `latitude !== undefined ? parseFloat(latitude) : null` *)
ParsedCoord(x) == IF x = UNDEF THEN NULLV ELSE parseFloat(x)

(* the validation before the transaction: TRUE when the body passes *)
txValid(b) ==
    LET lat == ParsedCoord(b.latitude)
        lng == ParsedCoord(b.longitude)
    IN /\ Truthy(b.client_id)
       /\ ~((b.latitude # UNDEF \/ b.longitude # UNDEF) /\ (lat = NULLV \/ lng = NULLV))
       /\ ~(lat # NULLV /\ ~isValidLatitude(lat))
       /\ ~(lng # NULLV /\ ~isValidLongitude(lng))

txDistance(r) ==
    LET cl == ClientRows(r.client_id)
        lat == ParsedCoord(r.latitude)
        lng == ParsedCoord(r.longitude)
    IN IF cl # {} /\ lat # NULLV /\ lng # NULLV
       THEN LET client == CHOOSE c \in cl : TRUE
                clientLat == parseFloat(client.latitude)
                clientLng == parseFloat(client.longitude)
            IN IF client.latitude # NULLV /\ client.longitude # NULLV
                  /\ IsNum(clientLat) /\ IsNum(clientLng)
               THEN RoundedDistance(lat, lng, clientLat, clientLng)
               ELSE NULLV
       ELSE NULLV

(* the query without its `status = ?` condition *)
getMostRecentCheckin(employeeId) == LimitOne(MostRecent(EmployeeIds(employeeId)))

(* getMostRecentActiveCheckin: the result sets the query may return *)
getMostRecentActiveCheckin(employeeId) == LimitOne(MostRecent(ActiveIds(employeeId)))

(* execute('BEGIN IMMEDIATE') of a request coming in; throws inside a     *)
(* transaction                                                            *)
Begin(r) ==
    IF inTx
    THEN /\ Enter([r EXCEPT !.pc = "catch"])
         /\ UNCHANGED <<inTx, txBase>>
    ELSE /\ inTx' = TRUE
         /\ txBase' = checkins
         /\ Enter([r EXCEPT !.pc = "begun"])

(* execute('ROLLBACK') and the answer after it; throws outside a transaction *)
RollbackAnd(r, answer) ==
    IF inTx
    THEN /\ checkins' = txBase
         /\ inTx' = FALSE
         /\ txBase' = << >>
         /\ Respond(r, r, answer)
    ELSE /\ Goto(r, [r EXCEPT !.pc = "catch"])
         /\ UNCHANGED <<checkins, inTx, txBase>>

(* execute('COMMIT') and the answer after it; throws outside a transaction *)
CommitAnd(r, answer) ==
    IF inTx
    THEN /\ inTx' = FALSE
         /\ txBase' = << >>
         /\ Respond(r, r, answer)
    ELSE /\ Goto(r, [r EXCEPT !.pc = "catch"])
         /\ UNCHANGED <<inTx, txBase>>

txPost(b) ==
    /\ variant = "tx"
    /\ HasSlot
    /\ RoomForCreate
    /\ IF ~txValid(b)
       THEN /\ Answer(Started("create", b), Invalid)
            /\ UNCHANGED <<inTx, txBase>>
       ELSE Begin(Started("create", b))
    /\ UNCHANGED <<variant, checkins, now>>

txPostBegun(r) ==
    /\ variant = "tx"
    /\ r.op = "create"
    /\ r.pc = "begun"
    /\ IF ~isAssigned(r.emp, r.client_id)
       THEN RollbackAnd(r, NotAssigned)
       ELSE /\ \E rows \in getMostRecentActiveCheckin(r.emp) :
                  Goto(r, [r EXCEPT !.pc = "active", !.rows = rows])
            /\ UNCHANGED <<checkins, inTx, txBase>>
    /\ UNCHANGED <<variant, now>>

txPostActive(r) ==
    LET dist == txDistance(r)
    IN /\ variant = "tx"
       /\ r.op = "create"
       /\ r.pc = "active"
       /\ IF r.rows # {}
          THEN RollbackAnd(r, AlreadyActive)
          ELSE /\ checkins' = Append(checkins,
                       Row(r.emp, r.client_id.v, ParsedCoord(r.latitude),
                           ParsedCoord(r.longitude), dist))
               /\ Goto(r, [r EXCEPT !.pc = "inserted", !.dist = dist,
                                    !.far = IsFar(dist), !.id = Len(checkins) + 1])
               /\ UNCHANGED <<inTx, txBase>>
       /\ UNCHANGED <<variant, now>>

txPostInserted(r) ==
    /\ variant = "tx"
    /\ r.op = "create"
    /\ r.pc = "inserted"
    /\ CommitAnd(r, Created)
    /\ UNCHANGED <<variant, checkins, now>>

(* the catch block of either handler: ROLLBACK, whose own failure is only *)
(* logged, then 500                                                       *)
txCatch(r) ==
    /\ variant = "tx"
    /\ r.pc = "catch"
    /\ IF inTx
       THEN /\ checkins' = txBase
            /\ inTx' = FALSE
            /\ txBase' = << >>
       ELSE UNCHANGED <<checkins, inTx, txBase>>
    /\ Respond(r, r, Failed)
    /\ UNCHANGED <<variant, now>>

(* "tx": router.put('/checkout') *)

txCheckout(e) ==
    /\ variant = "tx"
    /\ HasSlot
    /\ Begin(StartedCheckout(e))
    /\ UNCHANGED <<variant, checkins, now>>

txCheckoutBegun(r) ==
    /\ variant = "tx"
    /\ r.op = "checkout"
    /\ r.pc = "begun"
    /\ \E rows \in getMostRecentActiveCheckin(r.emp) :
          Goto(r, [r EXCEPT !.pc = "active", !.rows = rows])
    /\ UNCHANGED <<variant, checkins, inTx, txBase, now>>

(* UPDATE ... WHERE id = ? AND status = 'checked_in' *)
txUpdate(i) ==
    IF i \in RowIds /\ checkins[i].status = STATUS.CHECKED_IN
    THEN [checkins EXCEPT ![i] = CheckedOut(@)]
    ELSE checkins

txCheckoutActive(r) ==
    /\ variant = "tx"
    /\ r.op = "checkout"
    /\ r.pc = "active"
    /\ IF r.rows = {}
       THEN RollbackAnd(r, NoActive)
       ELSE LET i == (CHOOSE row \in r.rows : TRUE).id
            IN /\ checkins' = txUpdate(i)
               /\ Goto(r, [r EXCEPT !.pc = "updated", !.id = i])
               /\ UNCHANGED <<inTx, txBase>>
    /\ UNCHANGED <<variant, now>>

txCheckoutUpdated(r) ==
    /\ variant = "tx"
    /\ r.op = "checkout"
    /\ r.pc = "updated"
    /\ CommitAnd(r, CheckedOutOk)
    /\ UNCHANGED <<variant, checkins, now>>

(* "tx": router.get('/active'), outside any transaction of its own *)
txActive(e) ==
    /\ variant = "tx"
    /\ \E rows \in LimitOne(MostRecent(ActiveIds(e))) :
          Answer(ActiveData(e, rows), ActiveOk)
    /\ UNCHANGED <<variant, checkins, inTx, txBase, now>>

(* ---------------------------------------------------------------------- *)
(* "next": the Next.js route handlers over the in-memory store of         *)
(* lib/db.ts. A handler has no await between its reads and its write, so  *)
(* it is one step.                                                        *)

(* db.checkins.getActiveByEmployeeId: Array.find, the first in array order *)
getActiveByEmployeeId(employeeId) ==
    LET S == ActiveIds(employeeId)
    IN IF S = {} THEN {} ELSE {Read(CHOOSE i \in S : \A j \in S : i <= j)}

(* db.clients.findById *)
findById(clientId) == ClientRows(clientId)

(* db.createCheckin: the record the store keeps of the route's fields,   *)
(* checked_in from the current time                                      *)
createCheckin(e, c, lat, lng, dist) == Row(e, c, lat, lng, dist)

(* db.checkins.checkout *)
checkout(checkinId) ==
    IF checkinId \in RowIds
    THEN [checkins EXCEPT ![checkinId] = CheckedOut(@)]
    ELSE checkins

(* the route's input validation: TRUE when the body passes *)
nextValid(b) ==
    /\ Truthy(b.client_id)
    /\ IsNum(b.client_id) /\ b.client_id.v >= 1
    /\ b.latitude = UNDEF
         \/ (IsNum(b.latitude) /\ b.latitude.v >= 0 - 90000 /\ b.latitude.v <= 90000)
    /\ b.longitude = UNDEF
         \/ (IsNum(b.longitude) /\ b.longitude.v >= 0 - 180000 /\ b.longitude.v <= 180000)

nextDistance(r) ==
    LET cl == findById(r.client_id)
    IN IF cl = {} THEN NULLV
       ELSE LET client == CHOOSE c \in cl : TRUE
            IN IF Truthy(r.latitude) /\ Truthy(r.longitude)
                  /\ Truthy(client.latitude) /\ Truthy(client.longitude)
               THEN RoundedDistance(r.latitude, r.longitude,
                                    client.latitude, client.longitude)
               ELSE NULLV

nextPost(b) ==
    LET r == Started("create", b)
        dist == nextDistance(r)
    IN /\ variant = "next"
       /\ RoomForCreate
       /\ IF ~nextValid(b)
          THEN /\ Answer(r, Invalid)
               /\ UNCHANGED checkins
          ELSE IF getActiveByEmployeeId(b.emp) # {}
          THEN /\ Answer(r, AlreadyActive)
               /\ UNCHANGED checkins
          ELSE IF findById(b.client_id) = {}
          THEN /\ Answer(r, Invalid)
               /\ UNCHANGED checkins
          ELSE /\ checkins' = Append(checkins,
                       createCheckin(b.emp, b.client_id.v, OrNull(b.latitude),
                                     OrNull(b.longitude), dist))
               /\ Answer([r EXCEPT !.dist = dist, !.far = IsFar(dist),
                                   !.id = Len(checkins) + 1], Created)
       /\ UNCHANGED <<variant, inTx, txBase, now>>

nextCheckout(e) ==
    LET r == StartedCheckout(e)
        active == getActiveByEmployeeId(e)
    IN /\ variant = "next"
       /\ IF active = {}
          THEN /\ Answer(r, NoActive400)
               /\ UNCHANGED checkins
          ELSE LET i == (CHOOSE row \in active : TRUE).id
               IN /\ checkins' = checkout(i)
                  /\ Answer([r EXCEPT !.id = i], CheckedOutOk)
       /\ UNCHANGED <<variant, inTx, txBase, now>>

(* GET: db.getActiveCheckin(user.id) *)
nextActive(e) ==
    /\ variant = "next"
    /\ Answer(ActiveData(e, getActiveByEmployeeId(e)), ActiveOk)
    /\ UNCHANGED <<variant, checkins, inTx, txBase, now>>

(* ---------------------------------------------------------------------- *)
(* The clock *)

Tick ==
    /\ now < MaxTime
    /\ now' = now + 1
    /\ last' = NoResp
    /\ UNCHANGED <<variant, checkins, inTx, txBase, reqs>>

(* ---------------------------------------------------------------------- *)
(* Specifications *)

Init ==
    /\ variant \in Variants
    /\ checkins = << >>
    /\ inTx = FALSE
    /\ txBase = << >>
    /\ reqs = EmptyBag
    /\ last = NoResp
    /\ now = 0

firstStep(r) ==
    \/ firstPostActive(r)
    \/ firstCheckoutFound(r)

txStep(r) ==
    \/ txPostBegun(r)
    \/ txPostActive(r)
    \/ txPostInserted(r)
    \/ txCheckoutBegun(r)
    \/ txCheckoutActive(r)
    \/ txCheckoutUpdated(r)
    \/ txCatch(r)

(* a request comes in *)
Arrive(Bodies) ==
    \/ \E b \in Bodies : firstPost(b)
    \/ \E e \in Employees : firstCheckout(e)
    \/ \E b \in Bodies : txPost(b)
    \/ \E e \in Employees : txCheckout(e)
    \/ \E b \in Bodies : nextPost(b)
    \/ \E e \in Employees : nextCheckout(e)
    \/ \E e \in Employees : firstActive(e)
    \/ \E e \in Employees : txActive(e)
    \/ \E e \in Employees : nextActive(e)

(* a request in flight takes its next step *)
Step ==
    \/ \E r \in InFlight : firstStep(r)
    \/ \E r \in InFlight : txStep(r)

(* concurrent requests *)
Next ==
    \/ Arrive(RaceBodies)
    \/ Step
    \/ Tick

Spec == Init /\ [][Next]_vars

(* one request at a time, every body *)
SeqNext ==
    \/ reqs = EmptyBag /\ Arrive(AllBodies)
    \/ Step
    \/ Tick

SeqSpec == Init /\ [][SeqNext]_vars

(* ---------------------------------------------------------------------- *)
(* Reports and history: the users, the client names, dates               *)

MaxReportRows == 2

(* users: 1 is the seed's manager with the team 2 and 3; 4 reports to a  *)
(* second manager, 5; 6 is a manager nobody reports to                   *)
users ==
    [u \in 1..6 |->
        CASE u = 1 -> [id |-> 1, role |-> "manager", manager_id |-> 0]
          [] u \in {2, 3} -> [id |-> u, role |-> "employee", manager_id |-> 1]
          [] u = 4 -> [id |-> 4, role |-> "employee", manager_id |-> 5]
          [] OTHER -> [id |-> u, role |-> "manager", manager_id |-> 0]]

Managers == {u \in DOMAIN users : users[u].role = "manager"}

(* clients.name: client 3 was created under the name client 1 has; the    *)
(* create-client route asks for a name that is not empty and of at most  *)
(* 100 characters, and for nothing else                                   *)
clientName ==
    [c \in DOMAIN clients |-> IF c = 2 THEN "XYZ Ltd" ELSE "ABC Corp"]

(* a text value of a query string, as the sequence of its characters *)
Text(s) == [t |-> "text", v |-> s]

DigitChars == <<"0", "1", "2", "3", "4", "5", "6", "7", "8", "9">>

IsDigit(ch) == \E n \in 1..10 : DigitChars[n] = ch

DigitVal(ch) == (CHOOSE n \in 1..10 : DigitChars[n] = ch) - 1

(* /^\d{4}-\d{2}-\d{2}$/.test(date) *)
dateRegex(s) ==
    /\ Len(s) = 10
    /\ \A i \in 1..10 : IF i \in {5, 8} THEN s[i] = "-" ELSE IsDigit(s[i])

(* !isNaN(new Date(date).getTime()) for a text the pattern accepted: the *)
(* month is 01..12 and the day 01..31                                    *)
parsedDateIsValid(s) ==
    LET month == 10 * DigitVal(s[6]) + DigitVal(s[7])
        day == 10 * DigitVal(s[9]) + DigitVal(s[10])
    IN month \in 1..12 /\ day \in 1..31

(* DATE(checkin_time); instants are seconds from 2024-01-15 00:00:00 and *)
(* stay within that January                                               *)
DATE(t) ==
    LET day == 15 + (t \div 86400)
    IN <<"2", "0", "2", "4", "-", "0", "1", "-",
         DigitChars[(day \div 10) + 1], DigitChars[(day % 10) + 1]>>

(* the characters of a date, in the order of their codes *)
CharOrder == <<"-">> \o DigitChars

(* the comparison of two texts, character by character *)
RECURSIVE TextLess(_, _)
TextLess(a, b) ==
    IF b = <<>> THEN FALSE
    ELSE IF a = <<>> THEN TRUE
    ELSE IF Head(a) = Head(b) THEN TextLess(Tail(a), Tail(b))
    ELSE \E i, j \in 1..11 : /\ i < j
                            /\ CharOrder[i] = Head(a)
                            /\ CharOrder[j] = Head(b)

TextLessEq(a, b) == a = b \/ TextLess(a, b)

(* Math.round(a / b) of a non-negative a and a positive b *)
RoundDiv(a, b) == (2 * a + b) \div (2 * b)

(* ---------------------------------------------------------------------- *)
(* GET /api/reports/daily-summary (Express)                               *)

(* SELECT id, name, email FROM users WHERE manager_id = ? *)
teamMembers(managerId) ==
    {u \in DOMAIN users : users[u].manager_id = managerId}

(* parseInt of a query text: the number its leading digits spell, or NaN *)
RECURSIVE parseDigits(_, _)
parseDigits(s, n) ==
    IF s = <<>> \/ ~IsDigit(Head(s)) THEN n
    ELSE parseDigits(Tail(s), 10 * n + DigitVal(Head(s)))

parseInt(x) ==
    IF x.t = "text" /\ x.v # <<>> /\ IsDigit(Head(x.v))
    THEN Num(parseDigits(x.v, 0)) ELSE NAN

(* a query parameter that is there and not empty: `if (employee_id)` *)
Given(x) == x.t = "text" /\ x.v # <<>>

(* the check-ins of the team on the date: the two INNER JOINs, the WHERE  *)
(* and the employee filter                                                *)
summaryIds(managerId, date, employee_id) ==
    {i \in RowIds :
        /\ checkins[i].employee_id \in DOMAIN users
        /\ checkins[i].client_id \in DOMAIN clients
        /\ users[checkins[i].employee_id].manager_id = managerId
        /\ DATE(checkins[i].checkin_time) = date.v
        /\ Given(employee_id) => Num(checkins[i].employee_id) = parseInt(employee_id)}

(* ORDER BY ch.employee_id, ch.checkin_time: the row that comes first;   *)
(* rows that tie come in the order of their ids                           *)
firstOf(S) ==
    CHOOSE i \in S : \A j \in S \ {i} :
        \/ checkins[i].employee_id < checkins[j].employee_id
        \/ /\ checkins[i].employee_id = checkins[j].employee_id
           /\ \/ checkins[i].checkin_time < checkins[j].checkin_time
              \/ /\ checkins[i].checkin_time = checkins[j].checkin_time
                 /\ i < j

RECURSIVE ordered(_)
ordered(S) == IF S = {} THEN <<>> ELSE <<firstOf(S)>> \o ordered(S \ {firstOf(S)})

(* employeeMap.set(member.id, {...}) *)
newEntry(member) ==
    [employee_id |-> member, total_checkins |-> 0, hours_worked |-> 0,
     client_names |-> {}, total_distance |-> 0, distance_count |-> 0,
     checkins |-> {}]

(* the map that starts with the members who have a check-in *)
mappedVisitors(managerId, employee_id) ==
    {member \in teamMembers(managerId) :
        /\ Given(employee_id) => Num(member) = parseInt(employee_id)
        /\ \E i \in RowIds : checkins[i].employee_id = member}

(* the members the map starts with *)
mappedMembers(managerId, employee_id) ==
    {member \in teamMembers(managerId) :
        Given(employee_id) => Num(member) = parseInt(employee_id)}

(* the seconds of a check-in, an open one counted up to the clock *)
hoursUntilNow(checkin) ==
    IF checkin.checkout_time # NoTime
    THEN checkin.checkout_time - checkin.checkin_time
    ELSE now - checkin.checkin_time

(* the seconds of a check-in: checkout_time - checkin_time if it has a   *)
(* checkout_time, else 0                                                 *)
hoursWorked(checkin) ==
    IF checkin.checkout_time # NoTime
    THEN checkin.checkout_time - checkin.checkin_time
    ELSE 0

(* the test that lets every check-in count, a null distance as 0 *)
tracksAll(checkin) == checkin.distance_from_client.t \in {"num", "null"}

(* `checkin.distance_from_client !== null` *)
tracksDistance(checkin) == checkin.distance_from_client # NULLV

(* the body that counts a check-in for the team only where it tracks the *)
(* distance                                                              *)
processTracked(checkin, acc) ==
    IF checkin.employee_id \notin DOMAIN acc.employeeMap THEN acc
    ELSE LET employee == acc.employeeMap[checkin.employee_id]
             tracked == tracksDistance(checkin)
             distance == IF tracked THEN checkin.distance_from_client.v ELSE 0
             counted == IF tracked THEN 1 ELSE 0
             employee2 ==
                 [employee EXCEPT
                    !.total_checkins = @ + 1,
                    !.hours_worked = @ + hoursWorked(checkin),
                    !.client_names = @ \cup {clientName[checkin.client_id]},
                    !.checkins = @ \cup {checkin.id},
                    !.total_distance = @ + distance,
                    !.distance_count = @ + counted]
         IN [acc EXCEPT
               !.employeeMap[checkin.employee_id] = employee2,
               !.totalCheckins = @ + counted,
               !.totalHoursWorked = @ + hoursWorked(checkin),
               !.uniqueClients = @ \cup {checkin.client_id},
               !.totalDistance = @ + distance,
               !.distanceCount = @ + counted]

(* the body of checkins.forEach *)
processCheckin(checkin, acc) ==
    IF checkin.employee_id \notin DOMAIN acc.employeeMap THEN acc
    ELSE LET employee == acc.employeeMap[checkin.employee_id]
             tracked == tracksDistance(checkin)
             distance == IF tracked THEN checkin.distance_from_client.v ELSE 0
             counted == IF tracked THEN 1 ELSE 0
             employee2 ==
                 [employee EXCEPT
                    !.total_checkins = @ + 1,
                    !.hours_worked = @ + hoursWorked(checkin),
                    !.client_names = @ \cup {clientName[checkin.client_id]},
                    !.checkins = @ \cup {checkin.id},
                    !.total_distance = @ + distance,
                    !.distance_count = @ + counted]
         IN [acc EXCEPT
               !.employeeMap[checkin.employee_id] = employee2,
               !.totalCheckins = @ + 1,
               !.totalHoursWorked = @ + hoursWorked(checkin),
               !.uniqueClients = @ \cup {checkin.client_id},
               !.totalDistance = @ + distance,
               !.distanceCount = @ + counted]

RECURSIVE forEachCheckin(_, _)
forEachCheckin(ids, acc) ==
    IF ids = <<>> THEN acc
    ELSE forEachCheckin(Tail(ids), processCheckin(checkins[Head(ids)], acc))

(* an entry of employee_breakdown; hours in hundredths of an hour, the   *)
(* average distance in hundredths of a km                                 *)
breakdownEntry(employee) ==
    [employee_id |-> employee.employee_id,
     total_checkins |-> employee.total_checkins,
     hours_worked |-> RoundDiv(employee.hours_worked, 36),
     clients_visited |-> employee.client_names,
     average_distance |->
         IF employee.distance_count > 0
         THEN Num(RoundDiv(employee.total_distance, employee.distance_count))
         ELSE NULLV,
     checkins |-> employee.checkins]

(* the comparator that sorts ascending *)
compareAscending(a, b) == a.total_checkins - b.total_checkins

(* the comparator of employeeBreakdown.sort: a negative number puts a    *)
(* before b                                                              *)
compareBreakdown(a, b) == b.total_checkins - a.total_checkins

(* Array.prototype.sort, which is stable: the entry goes behind the      *)
(* entries the comparator does not put behind it                         *)
RECURSIVE insertSorted(_, _)
insertSorted(entry, sorted) ==
    IF sorted = <<>> THEN <<entry>>
    ELSE IF compareBreakdown(Head(sorted), entry) <= 0
         THEN <<Head(sorted)>> \o insertSorted(entry, Tail(sorted))
         ELSE <<entry>> \o sorted

RECURSIVE sort(_)
sort(entries) ==
    IF entries = <<>> THEN <<>>
    ELSE insertSorted(entries[Len(entries)], sort(SubSeq(entries, 1, Len(entries) - 1)))

(* employeeMap.forEach(... employeeBreakdown.push(...)): the entries in  *)
(* the order the members were put in the map                             *)
RECURSIVE pushAll(_, _)
pushAll(members, employeeMap) ==
    IF members = {} THEN <<>>
    ELSE LET member == CHOOSE m \in members : \A n \in members : m <= n
         IN <<breakdownEntry(employeeMap[member])>>
               \o pushAll(members \ {member}, employeeMap)

(* the answers of a report endpoint *)
SummaryResp(request, status, team_summary, employee_breakdown) ==
    [op |-> "summary", request |-> request, status |-> status,
     team_summary |-> team_summary, employee_breakdown |-> employee_breakdown]

BadRequest(request) == SummaryResp(request, 400, NULLV, <<>>)

Unauthorized(request) == SummaryResp(request, 401, NULLV, <<>>)

Forbidden(request) == SummaryResp(request, 403, NULLV, <<>>)

(* the answer for a manager without team members *)
emptyTeam(request) ==
    SummaryResp(request, 200,
        [total_employees |-> 0, employees_with_checkins |-> 0,
         total_checkins |-> 0, total_hours_worked |-> 0,
         unique_clients_visited |-> 0,
         average_distance_from_client |-> NULLV],
        <<>>)

(* the report of a team with members *)
buildSummary(request, managerId, date, employee_id) ==
    LET members == mappedMembers(managerId, employee_id)
        start == [employeeMap |-> [member \in members |-> newEntry(member)],
                  totalCheckins |-> 0, totalHoursWorked |-> 0,
                  uniqueClients |-> {}, totalDistance |-> 0,
                  distanceCount |-> 0]
        acc == forEachCheckin(ordered(summaryIds(managerId, date, employee_id)), start)
        employeesWithCheckins ==
            Cardinality({member \in members :
                            acc.employeeMap[member].total_checkins > 0})
    IN SummaryResp(request, 200,
          [total_employees |->
               IF Given(employee_id) THEN 1
               ELSE Cardinality(teamMembers(managerId)),
           employees_with_checkins |-> employeesWithCheckins,
           total_checkins |-> acc.totalCheckins,
           total_hours_worked |-> RoundDiv(acc.totalHoursWorked, 36),
           unique_clients_visited |-> Cardinality(acc.uniqueClients),
           average_distance_from_client |->
               IF acc.distanceCount > 0
               THEN Num(RoundDiv(acc.totalDistance, acc.distanceCount))
               ELSE NULLV],
          sort(pushAll(members, acc.employeeMap)))

(* the handler without the early answer for an empty team *)
dailySummaryOfAnyTeam(managerId, date, employee_id) ==
    LET request == [impl |-> "express", user |-> managerId, date |-> date,
                    employee_id |-> employee_id]
    IN IF ~Given(date) THEN BadRequest(request)
       ELSE IF ~dateRegex(date.v) THEN BadRequest(request)
       ELSE IF ~parsedDateIsValid(date.v) THEN BadRequest(request)
       ELSE IF Given(employee_id) /\ parseInt(employee_id) = NAN
       THEN BadRequest(request)
       ELSE buildSummary(request, managerId, date, employee_id)

(* router.get('/daily-summary'), for a request the middleware let pass   *)
(* as the manager req.user                                               *)
dailySummary(managerId, date, employee_id) ==
    LET request == [impl |-> "express", user |-> managerId, date |-> date,
                    employee_id |-> employee_id]
    IN IF ~Given(date) THEN BadRequest(request)
       ELSE IF ~dateRegex(date.v) THEN BadRequest(request)
       ELSE IF ~parsedDateIsValid(date.v) THEN BadRequest(request)
       ELSE IF teamMembers(managerId) = {} THEN emptyTeam(request)
       ELSE IF Given(employee_id) /\ parseInt(employee_id) = NAN
       THEN BadRequest(request)
       ELSE buildSummary(request, managerId, date, employee_id)

(* ---------------------------------------------------------------------- *)
(* The manager endpoints of the Next.js application                       *)

(* what an async function returns to a caller that does not await it *)
Promise(value) == [t |-> "promise", value |-> value]

(* `!x` of a value that is null or an object *)
Not(x) == x.t \in {"null", "undef"}

(* `x.role` *)
roleOf(x) == IF x.t = "object" THEN x.role ELSE "undefined"

(* a token payload: createToken's id, role and exp *)
Payload(id, exp) ==
    [t |-> "object", id |-> id, role |-> users[id].role, exp |-> exp]

(* the members of createToken's payload, in the order it writes them *)
memberOrder == <<"id", "email", "role", "name", "exp">>

(* JSON.stringify of a payload: the text of its members, each a name and *)
(* a value, in the order of the object; a member the object does not     *)
(* have is not written                                                   *)
stringify(payload) ==
    LET names == SelectSeq(memberOrder, LAMBDA name : name \in DOMAIN payload)
    IN [t |-> "json",
        members |-> [i \in 1..Len(names) |-> <<names[i], payload[names[i]]>>]]

(* Buffer.from(text).toString('base64') *)
toBase64(text) == [t |-> "base64", of |-> text]

(* Buffer.from(token, 'base64').toString(): the text a base64 text       *)
(* stands for; of any other text, some text that is not JSON             *)
fromBase64(token) == IF token.t = "base64" THEN token.of ELSE Text(<<"?">>)

(* what JSON.parse throws *)
SyntaxError == [t |-> "thrown"]

(* JSON.parse: the object of the members of a JSON text, the last of the *)
(* members of one name giving its value; throws on any other text        *)
parse(text) ==
    IF text.t # "json" THEN SyntaxError
    ELSE LET members == text.members
             names == {members[i][1] : i \in DOMAIN members}
             valueOf(name) ==
                 LET i == CHOOSE j \in DOMAIN members :
                             /\ members[j][1] = name
                             /\ \A k \in DOMAIN members :
                                    members[k][1] = name => k <= j
                 IN members[i][2]
         IN [name \in names \cup {"t"} |->
                IF name = "t" THEN "object" ELSE valueOf(name)]

(* `payload.exp < Date.now()`: the exp of an object without an exp is    *)
(* undefined, which is less than no number                               *)
expired(payload) == "exp" \in DOMAIN payload /\ payload.exp < now

(* lib/auth.ts createToken, an async function: the promise of the       *)
(* base64 of the JSON text of the payload, which expires 24 hours from   *)
(* now; the clock counts seconds                                         *)
createToken(user) ==
    Promise(toBase64(stringify(
        [t |-> "object", id |-> user.id, email |-> user.email,
         role |-> user.role, name |-> user.name,
         exp |-> now + 24 * 60 * 60])))

(* the token of a payload *)
tokenOf(payload) == toBase64(stringify(payload))

(* lib/auth.ts verifyToken, an async function: the promise of the        *)
(* payload, or of null for a token that does not parse or has expired;   *)
(* Date.now() is the clock                                               *)
verifyToken(token) ==
    LET payload == parse(fromBase64(token))
    IN Promise(IF payload.t = "thrown" THEN NULLV
               ELSE IF expired(payload) THEN NULLV
               ELSE payload)

(* the Authorization headers: none, another scheme, and Bearer with a    *)
(* token                                                                  *)
Bearer(token) == [t |-> "bearer", token |-> token]

(* a token that is not the base64 of a JSON text *)
Garbage == Text(<<"x">>)

NoHeader == [t |-> "undef", token |-> NULLV]

BasicHeader == [t |-> "basic", token |-> NULLV]

(* `!authHeader || !authHeader.startsWith('Bearer ')` *)
notBearer(authHeader) == authHeader.t # "bearer"

(* the store methods behind the two routes: the report of spec 4.3 over  *)
(* the team of the seed's manager, and the counts of the check-ins       *)
getDailySummary(request, date) == buildSummary(request, 1, date, UNDEF)

getManagerStats ==
    [total_checkins |-> Len(checkins),
     active_checkins |->
         Cardinality({i \in RowIds : checkins[i].status = STATUS.CHECKED_IN})]

(* new Date().toISOString().split('T')[0] *)
today == Text(DATE(now))

(* GET of the daily summary route *)
nextDailySummary(authHeader, date) ==
    LET request == [impl |-> "next", header |-> authHeader, date |-> date]
        user == verifyToken(authHeader.token)
        targetDate == IF Given(date) THEN date ELSE today
    IN IF notBearer(authHeader) THEN Unauthorized(request)
       ELSE IF Not(user) THEN Unauthorized(request)
       ELSE IF roleOf(user) # "manager" THEN Forbidden(request)
       ELSE IF Given(date) /\ ~dateRegex(date.v) THEN BadRequest(request)
       ELSE IF parsedDateIsValid(targetDate.v) /\ TextLess(today.v, targetDate.v)
       THEN BadRequest(request)
       ELSE getDailySummary(request, targetDate)

(* GET of the manager stats route *)
nextManagerStats(authHeader) ==
    LET request == [impl |-> "next", header |-> authHeader]
        user == verifyToken(authHeader.token)
    IN IF notBearer(authHeader)
       THEN [op |-> "stats", request |-> request, status |-> 401, data |-> NULLV]
       ELSE IF Not(user)
       THEN [op |-> "stats", request |-> request, status |-> 401, data |-> NULLV]
       ELSE IF roleOf(user) # "manager"
       THEN [op |-> "stats", request |-> request, status |-> 403, data |-> NULLV]
       ELSE [op |-> "stats", request |-> request, status |-> 200,
             data |-> getManagerStats]

(* ---------------------------------------------------------------------- *)
(* The check-in history                                                   *)

HistoryResp(request, rows) ==
    [op |-> "history", request |-> request, status |-> 200, rows |-> rows]

(* ORDER BY ch.checkin_time DESC; rows that tie come in the order of     *)
(* their ids                                                              *)
RECURSIVE newestFirst(_)
newestFirst(S) ==
    IF S = {} THEN <<>>
    ELSE LET i == CHOOSE k \in S : \A j \in S \ {k} :
                     \/ checkins[k].checkin_time > checkins[j].checkin_time
                     \/ /\ checkins[k].checkin_time = checkins[j].checkin_time
                        /\ k < j
         IN <<i>> \o newestFirst(S \ {i})

(* the WHERE that stops before end_date *)
historyBefore(i, employeeId, start_date, end_date) ==
    /\ checkins[i].employee_id = employeeId
    /\ Given(start_date) => TextLessEq(start_date.v, DATE(checkins[i].checkin_time))
    /\ Given(end_date) => TextLess(DATE(checkins[i].checkin_time), end_date.v)

(* the WHERE of both history queries: the employee's rows, from          *)
(* start_date on if it is given, up to end_date if it is given           *)
historyWhere(i, employeeId, start_date, end_date) ==
    /\ checkins[i].employee_id = employeeId
    /\ Given(start_date) => TextLessEq(start_date.v, DATE(checkins[i].checkin_time))
    /\ Given(end_date) => TextLessEq(DATE(checkins[i].checkin_time), end_date.v)

(* "first": router.get('/history'), with the INNER JOIN on clients *)
firstHistory(employeeId, start_date, end_date) ==
    HistoryResp([impl |-> "first", user |-> employeeId,
                 start_date |-> start_date, end_date |-> end_date],
        newestFirst({i \in RowIds :
            /\ checkins[i].client_id \in DOMAIN clients
            /\ historyWhere(i, employeeId, start_date, end_date)}))

(* "tx": router.get('/history'), with the LEFT JOIN on clients *)
txHistory(employeeId, start_date, end_date) ==
    HistoryResp([impl |-> "tx", user |-> employeeId,
                 start_date |-> start_date, end_date |-> end_date],
        newestFirst({i \in RowIds :
            historyWhere(i, employeeId, start_date, end_date)}))

(* c.checkin_time.split('T')[0] *)
checkinDate(c) == DATE(c.checkin_time)

RECURSIVE filter(_, _, _, _)
filter(i, employeeId, startDate, endDate) ==
    IF i > Len(checkins) THEN <<>>
    ELSE LET c == checkins[i]
             keep == IF c.employee_id # employeeId THEN FALSE
                     ELSE IF Given(startDate) /\ TextLess(checkinDate(c), startDate.v)
                     THEN FALSE
                     ELSE IF Given(endDate) /\ TextLess(endDate.v, checkinDate(c))
                     THEN FALSE
                     ELSE TRUE
         IN (IF keep THEN <<i>> ELSE <<>>)
               \o filter(i + 1, employeeId, startDate, endDate)

(* db.checkins.getByDateRange *)
getByDateRange(employeeId, startDate, endDate) ==
    HistoryResp([impl |-> "next", user |-> employeeId,
                 start_date |-> startDate, end_date |-> endDate],
        filter(1, employeeId, startDate, endDate))

(* ---------------------------------------------------------------------- *)
(* The specification of the reports: a table of check-ins and one        *)
(* request that reads it                                                  *)

(* the dates of a query: none, empty, the two days of the table, a date  *)
(* without its leading zero, and a date no calendar has                   *)
Jan15 == Text(DATE(0))

Jan16 == Text(DATE(86400))

DateParams ==
    {UNDEF, Text(<<>>), Jan15, Jan16,
     Text(<<"2", "0", "2", "4", "-", "1", "-", "1", "5">>),
     Text(<<"2", "0", "2", "4", "-", "1", "3", "-", "4", "5">>)}

(* the employee filters: none, employee 2, and a text that is no number *)
FilterParams == {UNDEF, Text(<<"2">>), Text(<<"x">>)}

(* the Authorization headers: none, another scheme, a token that does   *)
(* not parse, and the tokens of the manager 1 and the employee 2, valid  *)
(* and expired                                                            *)
Headers ==
    {NoHeader, BasicHeader, Bearer(Garbage)}
        \cup {Bearer(tokenOf(Payload(u, exp))) :
                 u \in {1, 2}, exp \in {now - 1, now + 86400}}

(* the check-ins of a table: who visited which client, on which day,     *)
(* checked out after an hour and a half or not, at which distance        *)
Visits == {<<2, 1>>, <<2, 2>>, <<2, 3>>, <<3, 2>>, <<4, 1>>}

Shapes ==
    ({0} \X {NoTime, 5400} \X {NULLV, Num(0), Num(125)})
        \cup {<<1, 5400, Num(125)>>}

ReportRow(i, visit, shape) ==
    [id |-> i, employee_id |-> visit[1], client_id |-> visit[2],
     checkin_time |-> shape[1] * 86400 + 32400,
     checkout_time |-> IF shape[2] = NoTime THEN NoTime
                       ELSE shape[1] * 86400 + 32400 + shape[2],
     latitude |-> NULLV, longitude |-> NULLV,
     distance_from_client |-> shape[3],
     status |-> IF shape[2] = NoTime THEN STATUS.CHECKED_IN
                ELSE STATUS.CHECKED_OUT]

ReportInit ==
    /\ variant = "tx"
    /\ \E n \in 0..MaxReportRows :
          \E visit \in [1..n -> Visits], shape \in [1..n -> Shapes] :
             checkins = [i \in 1..n |-> ReportRow(i, visit[i], shape[i])]
    /\ inTx = FALSE
    /\ txBase = <<>>
    /\ reqs = EmptyBag
    /\ last = NoResp
    /\ now = 86400 + 43200

Reads == UNCHANGED <<variant, checkins, inTx, txBase, reqs, now>>

DailySummary ==
    /\ last = NoResp
    /\ \E managerId \in Managers, date \in DateParams, employee_id \in FilterParams :
          last' = dailySummary(managerId, date, employee_id)
    /\ Reads

NextDailySummary ==
    /\ last = NoResp
    /\ \E authHeader \in Headers, date \in DateParams :
          last' = nextDailySummary(authHeader, date)
    /\ Reads

NextManagerStats ==
    /\ last = NoResp
    /\ \E authHeader \in Headers : last' = nextManagerStats(authHeader)
    /\ Reads

HistoryParams == {UNDEF, Text(<<>>), Jan15, Jan16}

FirstHistory ==
    /\ last = NoResp
    /\ \E employeeId \in Employees, start_date \in HistoryParams,
          end_date \in HistoryParams :
          last' = firstHistory(employeeId, start_date, end_date)
    /\ Reads

TxHistory ==
    /\ last = NoResp
    /\ \E employeeId \in Employees, start_date \in HistoryParams,
          end_date \in HistoryParams :
          last' = txHistory(employeeId, start_date, end_date)
    /\ Reads

NextHistory ==
    /\ last = NoResp
    /\ \E employeeId \in Employees, startDate \in HistoryParams,
          endDate \in HistoryParams :
          last' = getByDateRange(employeeId, startDate, endDate)
    /\ Reads

ReportNext ==
    \/ DailySummary
    \/ NextDailySummary
    \/ NextManagerStats
    \/ FirstHistory
    \/ TxHistory
    \/ NextHistory

ReportSpec == ReportInit /\ [][ReportNext]_vars

(* ---------------------------------------------------------------------- *)
(* The weekly stats of an employee                                        *)

(* the week that leaves out the check-in made exactly seven days before *)
weekCheckinsAfter(employeeId) ==
    LET weekAgo == now - 7 * 86400
    IN {i \in RowIds : /\ checkins[i].employee_id = employeeId
                       /\ checkins[i].checkin_time > weekAgo}

(* the check-ins of the employee from seven days before the clock on:    *)
(* `new Date(c.checkin_time) >= weekAgo`                                  *)
weekCheckins(employeeId) ==
    LET weekAgo == now - 7 * 86400
    IN {i \in RowIds : /\ checkins[i].employee_id = employeeId
                       /\ checkins[i].checkin_time >= weekAgo}

(* db.checkins.getWeekStatsByEmployeeId *)
getWeekStatsByEmployeeId(employeeId) ==
    LET uniqueClients == {checkins[i].client_id : i \in weekCheckins(employeeId)}
    IN [op |-> "week", request |-> [impl |-> "next", user |-> employeeId],
        status |-> 200,
        week_stats |-> [total_checkins |-> Cardinality(weekCheckins(employeeId)),
                        unique_clients |-> Cardinality(uniqueClients)]]

(* the week_stats query: the count of the rows and of their distinct    *)
(* client_id, WHERE employee_id = ? AND checkin_time >=                  *)
(* datetime('now', '-7 days')                                            *)
weekStats(employeeId) ==
    LET rows == {i \in RowIds : /\ checkins[i].employee_id = employeeId
                                /\ checkins[i].checkin_time >= now - 7 * 86400}
    IN [total_checkins |-> Cardinality(rows),
        unique_clients |-> Cardinality({checkins[i].client_id : i \in rows})]

(* router.get('/employee'): today's check-ins, the assigned clients and  *)
(* the week's stats                                                       *)
employeeDashboard(employeeId) ==
    [op |-> "week", request |-> [impl |-> "express", user |-> employeeId],
     status |-> 200,
     today_checkins |->
         newestFirst({i \in RowIds :
             /\ checkins[i].client_id \in DOMAIN clients
             /\ checkins[i].employee_id = employeeId
             /\ DATE(checkins[i].checkin_time) = today.v}),
     assigned_clients |->
         {c \in DOMAIN clients : <<employeeId, c>> \in employeeClients},
     week_stats |-> weekStats(employeeId)]

(* the clocks of the weekly stats: the day after the first check-ins, and *)
(* a week after the last ones, to the second and one second later         *)
WeekClocks == {86400 + 43200, 8 * 86400 + 32400, 8 * 86400 + 32401}

WeekInit ==
    /\ variant = "tx"
    /\ \E n \in 0..MaxReportRows :
          \E visit \in [1..n -> Visits], shape \in [1..n -> Shapes] :
             checkins = [i \in 1..n |-> ReportRow(i, visit[i], shape[i])]
    /\ inTx = FALSE
    /\ txBase = <<>>
    /\ reqs = EmptyBag
    /\ last = NoResp
    /\ now \in WeekClocks

WeekStats ==
    /\ last = NoResp
    /\ \E employeeId \in DOMAIN users : last' = getWeekStatsByEmployeeId(employeeId)
    /\ Reads

EmployeeDashboard ==
    /\ last = NoResp
    /\ \E employeeId \in DOMAIN users : last' = employeeDashboard(employeeId)
    /\ Reads

WeekNext == WeekStats \/ EmployeeDashboard

WeekSpec == WeekInit /\ [][WeekNext]_vars

(* ---------------------------------------------------------------------- *)
(* The geodistance on its own: points are measured one after the other   *)

(* latitudes and longitudes in thousandths of a degree: the poles, the   *)
(* equator, the seed's ABC Corp and a point 5 thousandths from it, and   *)
(* a point of the southern and western hemisphere                        *)
Latitudes == {0 - 90000, 0 - 33868, 0, 28495, 28500, 90000}

Longitudes == {0 - 180000, 0 - 70650, 0, 77089, 77094, 180000}

Points == Latitudes \X Longitudes

Measured(from, to) ==
    [op |-> "distance", from |-> from, to |-> to,
     distance |-> calculateDistance(from[1], from[2], to[1], to[2])]

GeoInit ==
    /\ variant = "tx"
    /\ checkins = <<>>
    /\ inTx = FALSE
    /\ txBase = <<>>
    /\ reqs = EmptyBag
    /\ last = NoResp
    /\ now = 0

Measure ==
    /\ \E from \in Points, to \in Points : last' = Measured(from, to)
    /\ Reads

GeoSpec == GeoInit /\ [][Measure]_vars

(* ---------------------------------------------------------------------- *)
(* Tokens: lib/auth.ts createToken and verifyToken, applied to the users *)
(* of the store and to tokens nobody has created; `last` keeps the token *)
(* and what verifyToken made of it                                       *)

(* the users of the store's seed, as createToken takes them *)
seedUsers ==
    { [id |-> 1, name |-> "Amit Sharma", email |-> "manager@unolo.com",
       role |-> "manager"],
      [id |-> 2, name |-> "Rahul Kumar", email |-> "rahul@unolo.com",
       role |-> "employee"],
      [id |-> 3, name |-> "Priya Singh", email |-> "priya@unolo.com",
       role |-> "employee"] }

(* tokens a client has put together: of a payload without exp, of one    *)
(* that expired a second ago, of one that expires in an hour, and a text *)
(* that is not the base64 of a JSON text                                 *)
OtherTokens ==
    { tokenOf([t |-> "object", id |-> 1, role |-> "manager"]),
      tokenOf(Payload(1, now - 1)),
      tokenOf(Payload(2, now + 3600)),
      Garbage }

NoUser == [id |-> 0, name |-> "", email |-> "", role |-> ""]

Held(user, token) ==
    [op |-> "token", user |-> user, token |-> token, created |-> now,
     at |-> NoTime, result |-> NULLV]

TokenInit ==
    /\ variant = "next"
    /\ checkins = << >>
    /\ inTx = FALSE
    /\ txBase = << >>
    /\ reqs = EmptyBag
    /\ last = NoResp
    /\ now \in {0, 1}

TokenFrame == UNCHANGED <<variant, checkins, inTx, txBase, reqs>>

(* `await createToken(user)` *)
CreateToken ==
    /\ last = NoResp
    /\ \E user \in seedUsers : last' = Held(user, createToken(user).value)
    /\ UNCHANGED now
    /\ TokenFrame

(* a client comes with a token of its own making *)
PresentToken ==
    /\ last = NoResp
    /\ \E token \in OtherTokens : last' = Held(NoUser, token)
    /\ UNCHANGED now
    /\ TokenFrame

(* time passes while the client holds the token: an hour, and to a      *)
(* second before, at and after the day, and to the second day            *)
Wait ==
    /\ last.op = "token"
    /\ \E t \in {3600, 24 * 60 * 60 - 1, 24 * 60 * 60, 24 * 60 * 60 + 1,
                 24 * 60 * 60 + 2, 2 * 24 * 60 * 60} :
          now < t /\ now' = t
    /\ UNCHANGED last
    /\ TokenFrame

(* `await verifyToken(token)` *)
VerifyToken ==
    /\ last.op = "token"
    /\ last' = [last EXCEPT !.op = "verified", !.at = now,
                            !.result = verifyToken(last.token).value]
    /\ UNCHANGED now
    /\ TokenFrame

TokenNext == CreateToken \/ PresentToken \/ Wait \/ VerifyToken

TokenSpec == TokenInit /\ [][TokenNext]_vars

(* ---------------------------------------------------------------------- *)
(* Properties *)

(* the rows of a table as a set of ids present before and after a step *)
Kept == RowIds \cap DOMAIN checkins'

(* the request r in flight takes a step *)
Steps(r) == CopiesIn(r, reqs') < CopiesIn(r, reqs)

(* C1: for every employee, at most one check-in record has status        *)
(* checked_in, in every reachable state, also when create requests of    *)
(* the same employee interleave.                                         *)
C1_AtMostOneActive ==
    \A e \in Employees : Cardinality(ActiveIds(e)) <= 1

(* C2: a create check-in answers 201 only if the employee is assigned to *)
(* the client; without the assignment it answers 403.                    *)
C2_CreatedOnlyIfAssigned ==
    (last.op = "create" /\ last.status = Created.status)
        => isAssigned(last.emp, last.client_id)

(* C3: a checkout by an employee with no checked_in record answers 404   *)
(* and leaves every check-in record as it was. (The step that answers    *)
(* for a request that has already issued its own UPDATE is not a         *)
(* checkout without an active record.)                                   *)
C3_CheckoutWithoutActive ==
    [][(/\ last'.op = "checkout"
        /\ ActiveIds(last'.emp) = {}
        /\ ~\E r \in InFlight : Steps(r) /\ r.pc = "updated")
          => (last'.status = NoActive.status /\ checkins' = checkins)]_vars

(* C4: checkin_time never changes after creation, checkout_time is       *)
(* written once, and status moves only from checked_in to checked_out.   *)
C4_RecordLifecycle ==
    [][\A i \in Kept :
          /\ checkins'[i].checkin_time = checkins[i].checkin_time
          /\ checkins[i].checkout_time # NoTime
                => checkins'[i].checkout_time = checkins[i].checkout_time
          /\ checkins[i].status = STATUS.CHECKED_OUT
                => checkins'[i].status = STATUS.CHECKED_OUT]_vars

(* C5: of two concurrent checkouts that both read the same active        *)
(* record, the one that comes second finds it checked out and does not   *)
(* write it again.                                                       *)
C5_NoDoubleCheckout ==
    [][\A r \in InFlight :
          (r.op = "checkout" /\ Steps(r))
             => \A row \in r.rows :
                   (/\ row.status = STATUS.CHECKED_IN
                    /\ row.id \in Kept
                    /\ checkins[row.id].status = STATUS.CHECKED_OUT)
                      => checkins'[row.id] = checkins[row.id]]_vars

(* C6: the active check-in lookup that directly follows a successful     *)
(* create of the same employee returns the created record, with status   *)
(* checked_in; the one that directly follows a successful checkout of    *)
(* the same employee returns null.                                       *)
C6_ActiveRoundTrip ==
    [][(last'.op = "active" /\ last'.emp = last.emp)
          => /\ (last.op = "create" /\ last.status = Created.status)
                   => (/\ last'.id = last.id
                       /\ checkins[last.id].status = STATUS.CHECKED_IN)
             /\ (last.op = "checkout" /\ last.status = CheckedOutOk.status)
                   => last'.id = 0]_vars

(* a create request whose body is complete: a client the employee is      *)
(* assigned to and both coordinates, numeric and in range                 *)
Complete(resp) ==
    /\ isAssigned(resp.emp, resp.client_id)
    /\ isValidLatitude(resp.latitude)
    /\ isValidLongitude(resp.longitude)

(* the checked_in records of the employee other than the one the answer  *)
(* names                                                                 *)
OtherActive(resp) == ActiveIds(resp.emp) \ {resp.id}

ClientLocated(clientId) ==
    \A c \in ClientRows(clientId) : IsNum(c.latitude) /\ IsNum(c.longitude)

(* C8: the record of a successful create has a distance_from_client      *)
(* exactly when the caller gave both coordinates as numbers (0 included) *)
(* and the client has both stored coordinates.                           *)
C8_DistanceIffLocated ==
    (last.op = "create" /\ last.status = Created.status /\ last.id \in RowIds)
        => (checkins[last.id].distance_from_client # NULLV
              <=> (/\ IsNum(last.latitude) /\ IsNum(last.longitude)
                   /\ ClientLocated(last.client_id)))

(* C9: the answer of a create carries the warning exactly when the       *)
(* stored rounded distance is above 0.5 km, and an answer with the       *)
(* warning is a 201 whose record is in the table.                        *)
C9_WarningIffFar ==
    last.op = "create"
        => /\ last.status = Created.status
                => /\ last.id \in RowIds
                   /\ last.far <=>
                         (/\ IsNum(checkins[last.id].distance_from_client)
                          /\ checkins[last.id].distance_from_client.v > 50)
           /\ last.far => last.status = Created.status

(* C9 witness: a create that was answered 201 with the warning *)
C9_Witness ==
    /\ last.op = "create"
    /\ last.status = Created.status
    /\ last.far

(* a body POST /checkin must refuse: client_id missing or not a positive *)
(* number, a coordinate that is not a number or is out of range, or one  *)
(* coordinate without the other                                          *)
BadBody(b) ==
    \/ ~(IsNum(b.client_id) /\ b.client_id.v >= 1)
    \/ b.latitude # UNDEF /\ ~isValidLatitude(b.latitude)
    \/ b.longitude # UNDEF /\ ~isValidLongitude(b.longitude)
    \/ (b.latitude = UNDEF) # (b.longitude = UNDEF)

(* C10: a create check-in with such a body is answered 400 and the step  *)
(* that answers it inserts nothing. The body is the request's only       *)
(* fault: when its client_id is well-formed, the employee is assigned to *)
(* that client.                                                          *)
C10_BadBodyRejected ==
    [][(/\ last'.op = "create"
        /\ BadBody(last')
        /\ (IsNum(last'.client_id) /\ last'.client_id.v >= 1)
              => isAssigned(last'.emp, last'.client_id))
          => (last'.status = Invalid.status /\ checkins' = checkins)]_vars

(* the answer rejects a create: 403 without the assignment, or 400 with  *)
(* a check-in already active                                             *)
Rejected(resp) ==
    /\ resp.op = "create"
    /\ \/ resp.status = NotAssigned.status
       \/ resp.status = AlreadyActive.status /\ resp.message = AlreadyActive.message

(* C11: the step that answers a rejected create (403 not assigned, 400   *)
(* already active) leaves the checkins table as it was, the active       *)
(* record of the employee included, and the request has inserted no      *)
(* record of its own before.                                             *)
C11_RejectedCreateKeepsStore ==
    [][Rejected(last') => (checkins' = checkins /\ last'.id = 0)]_vars

(* C11 witness: a create rejected as a conflict while the active record  *)
(* of the employee is in the table                                       *)
C11_Witness ==
    /\ Rejected(last)
    /\ last.status = AlreadyActive.status
    /\ ActiveIds(last.emp) # {}

(* ---------------------------------------------------------------------- *)
(* Properties of the reports *)

(* the answer is a report of the Express daily summary *)
IsReport(resp) ==
    resp.op = "summary" /\ resp.request.impl = "express" /\ resp.status = 200

(* the team of a manager: the users whose manager_id is the manager *)
Team(managerId) == {u \in DOMAIN users : users[u].manager_id = managerId}

(* the day of a date of January 2024, counted from the 15th *)
DayOf(date) == 10 * DigitVal(date.v[9]) + DigitVal(date.v[10]) - 15

(* the check-ins of an employee on the date of the request *)
DayRows(e, request) ==
    {i \in RowIds : /\ checkins[i].employee_id = e
                    /\ checkins[i].checkin_time \div 86400 = DayOf(request.date)}

(* C12: a daily summary asked for without an employee filter has exactly *)
(* one employee_breakdown entry per team member of the manager, members  *)
(* without a check-in on the date included, and employees_with_checkins  *)
(* is the number of entries whose total_checkins is above 0.             *)
C12_OneEntryPerMember ==
    (IsReport(last) /\ ~Given(last.request.employee_id))
        => LET entries == last.employee_breakdown
               team == Team(last.request.user)
           IN /\ Len(entries) = Cardinality(team)
              /\ {entries[k].employee_id : k \in DOMAIN entries} = team
              /\ \A k \in DOMAIN entries :
                    entries[k].total_checkins
                        = Cardinality(DayRows(entries[k].employee_id, last.request))
              /\ last.team_summary.employees_with_checkins
                    = Cardinality({k \in DOMAIN entries : entries[k].total_checkins > 0})

(* C12 witness: a report without filter where one member has a check-in  *)
(* on the date and another has none                                      *)
C12_Witness ==
    /\ IsReport(last)
    /\ ~Given(last.request.employee_id)
    /\ \E j, k \in DOMAIN last.employee_breakdown :
          /\ last.employee_breakdown[j].total_checkins > 0
          /\ last.employee_breakdown[k].total_checkins = 0

(* the date of the request is one the endpoint accepts *)
GoodDate(request) == request.date \in {Jan15, Jan16}

(* C13: the daily summary of a manager without team members is no       *)
(* error: it is answered 200 with a team_summary of zeros, a null        *)
(* average distance and an empty employee_breakdown, whatever check-ins  *)
(* the table holds.                                                      *)
C13_EmptyTeam ==
    (/\ last.op = "summary"
     /\ last.request.impl = "express"
     /\ GoodDate(last.request)
     /\ Team(last.request.user) = {})
        => /\ last.status = 200
           /\ last.team_summary =
                 [total_employees |-> 0, employees_with_checkins |-> 0,
                  total_checkins |-> 0, total_hours_worked |-> 0,
                  unique_clients_visited |-> 0,
                  average_distance_from_client |-> NULLV]
           /\ last.employee_breakdown = <<>>

(* C13 witness: the report of a manager without team members over a     *)
(* table that has check-ins on the date                                   *)
C13_Witness ==
    /\ last.op = "summary"
    /\ last.request.impl = "express"
    /\ GoodDate(last.request)
    /\ Team(last.request.user) = {}
    /\ last.status = 200
    /\ \E i \in RowIds : checkins[i].checkin_time \div 86400 = DayOf(last.request.date)

(* C14: the employee_breakdown of a daily summary is ordered by          *)
(* total_checkins, descending: no entry has fewer check-ins than the     *)
(* entry that follows it.                                                *)
C14_BreakdownDescending ==
    IsReport(last)
        => \A k \in 1..(Len(last.employee_breakdown) - 1) :
              last.employee_breakdown[k].total_checkins
                  >= last.employee_breakdown[k + 1].total_checkins

(* C14 witness: a report where the sort moved a member with more         *)
(* check-ins in front of a member of a smaller id                        *)
C14_Witness ==
    /\ IsReport(last)
    /\ Len(last.employee_breakdown) >= 2
    /\ last.employee_breakdown[1].total_checkins
          > last.employee_breakdown[2].total_checkins
    /\ last.employee_breakdown[1].employee_id
          > last.employee_breakdown[2].employee_id

(* the check-ins among S that carry a distance *)
WithDistance(S) == {i \in S : checkins[i].distance_from_client # NULLV}

(* the sum of the distances of the check-ins S, all carrying one *)
RECURSIVE DistanceSum(_)
DistanceSum(S) ==
    IF S = {} THEN 0
    ELSE LET i == CHOOSE k \in S : TRUE
         IN checkins[i].distance_from_client.v + DistanceSum(S \ {i})

(* avg is null if S is empty, and else the mean of the distances of S    *)
(* rounded to the nearest hundredth of a km                              *)
IsMeanOf(avg, S) ==
    IF S = {} THEN avg = NULLV
    ELSE /\ IsNum(avg)
         /\ 2 * Cardinality(S) * avg.v - Cardinality(S) <= 2 * DistanceSum(S)
         /\ 2 * DistanceSum(S) < 2 * Cardinality(S) * avg.v + Cardinality(S)

(* the check-ins of the date by the employees of the breakdown *)
ReportRows(resp) ==
    UNION {DayRows(resp.employee_breakdown[k].employee_id, resp.request) :
              k \in DOMAIN resp.employee_breakdown}

(* C15: the average distance of each employee and of the team is the     *)
(* mean over the check-ins of the date that carry a distance, a          *)
(* check-in without one changing neither the sum nor the divisor, and    *)
(* it is null exactly when no check-in carries a distance.               *)
C15_AverageOverDistances ==
    IsReport(last)
        => /\ \A k \in DOMAIN last.employee_breakdown :
                 IsMeanOf(last.employee_breakdown[k].average_distance,
                          WithDistance(DayRows(last.employee_breakdown[k].employee_id,
                                               last.request)))
           /\ IsMeanOf(last.team_summary.average_distance_from_client,
                       WithDistance(ReportRows(last)))

(* C15 witness: a report for an employee with one check-in that carries  *)
(* a distance and one that carries none                                  *)
C15_Witness ==
    /\ IsReport(last)
    /\ \E k \in DOMAIN last.employee_breakdown :
          LET rows == DayRows(last.employee_breakdown[k].employee_id, last.request)
          IN /\ WithDistance(rows) # {}
             /\ WithDistance(rows) # rows
             /\ last.employee_breakdown[k].average_distance # NULLV

(* the seconds between check-in and checkout of the check-ins among S    *)
(* that have a checkout_time                                              *)
RECURSIVE SecondsOf(_)
SecondsOf(S) ==
    IF S = {} THEN 0
    ELSE LET i == CHOOSE k \in S : TRUE
         IN (IF checkins[i].checkout_time = NoTime THEN 0
             ELSE checkins[i].checkout_time - checkins[i].checkin_time)
               + SecondsOf(S \ {i})

(* hours, in hundredths of an hour, is the rounded time of S *)
IsHoursOf(hours, S) ==
    /\ 72 * hours - 36 <= 2 * SecondsOf(S)
    /\ 2 * SecondsOf(S) < 72 * hours + 36

(* C16: in a daily summary a check-in without checkout_time adds 0 to    *)
(* the hours worked and still counts in total_checkins and in the        *)
(* clients visited; a check-in with a checkout_time adds checkout_time   *)
(* minus checkin_time.                                                   *)
C16_HoursOfClosedCheckins ==
    IsReport(last)
        => /\ \A k \in DOMAIN last.employee_breakdown :
                 LET entry == last.employee_breakdown[k]
                     rows == DayRows(entry.employee_id, last.request)
                 IN /\ IsHoursOf(entry.hours_worked, rows)
                    /\ entry.total_checkins = Cardinality(rows)
                    /\ entry.clients_visited
                          = {clientName[checkins[i].client_id] : i \in rows}
           /\ IsHoursOf(last.team_summary.total_hours_worked, ReportRows(last))
           /\ last.team_summary.total_checkins = Cardinality(ReportRows(last))

(* C16 witness: a report for an employee with a check-in still open and  *)
(* one checked out, at different clients                                  *)
C16_Witness ==
    /\ IsReport(last)
    /\ \E k \in DOMAIN last.employee_breakdown :
          LET entry == last.employee_breakdown[k]
              rows == DayRows(entry.employee_id, last.request)
          IN /\ \E i, j \in rows :
                   /\ checkins[i].checkout_time = NoTime
                   /\ checkins[j].checkout_time # NoTime
                   /\ clientName[checkins[i].client_id]
                         # clientName[checkins[j].client_id]
             /\ entry.hours_worked > 0
             /\ entry.total_checkins = 2

(* C17: the unique_clients_visited of the team is the number of distinct *)
(* client names visited on the date: the size of the union of the        *)
(* clients_visited sets of the employee_breakdown.                       *)
C17_UniqueClientNames ==
    IsReport(last)
        => last.team_summary.unique_clients_visited
              = Cardinality(UNION {last.employee_breakdown[k].clients_visited :
                                      k \in DOMAIN last.employee_breakdown})

(* the header carries the token of a user, not expired *)
ValidToken(authHeader) ==
    /\ authHeader.t = "bearer"
    /\ LET payload == parse(fromBase64(authHeader.token))
       IN /\ payload.t = "object"
          /\ "exp" \in DOMAIN payload
          /\ payload.exp >= now

(* the request comes from a manager: it passed the Express middleware,   *)
(* or it carries the valid token of a manager                            *)
FromManager(request) ==
    \/ request.impl = "express"
    \/ /\ request.impl = "next"
       /\ ValidToken(request.header)
       /\ parse(fromBase64(request.header.token)).role = "manager"

(* the date is there and of the form YYYY-MM-DD *)
HasDateForm(date) ==
    /\ date.t = "text"
    /\ Len(date.v) = 10
    /\ date.v[5] = "-"
    /\ date.v[8] = "-"
    /\ \A i \in {1, 2, 3, 4, 6, 7, 9, 10} : IsDigit(date.v[i])

(* C18: a daily summary request of a manager whose date parameter is     *)
(* missing or not of the form YYYY-MM-DD is answered 400, and no report  *)
(* is computed.                                                          *)
C18_BadDateRejected ==
    (/\ last.op = "summary"
     /\ FromManager(last.request)
     /\ ~HasDateForm(last.request.date))
        => (last.status = 400 /\ last.team_summary = NULLV)

(* the manager endpoints of the Next.js application answered *)
IsNextManagerAnswer(resp) ==
    resp.op \in {"summary", "stats"} /\ resp.request.impl = "next"

(* C19: the manager endpoints (daily summary, manager stats) answer 401  *)
(* to a request without a valid, unexpired token, 403 to the valid token *)
(* of a user who is no manager, and neither 401 nor 403 to the valid     *)
(* token of a manager.                                                   *)
C19_ManagerOnly ==
    IsNextManagerAnswer(last)
        => IF ~ValidToken(last.request.header) THEN last.status = 401
           ELSE IF parse(fromBase64(last.request.header.token)).role # "manager"
           THEN last.status = 403
           ELSE last.status \notin {401, 403}

(* the check-ins the history of the request is to return: those of the   *)
(* employee whose calendar day lies within the bounds that are given     *)
InRange(request) ==
    {i \in RowIds :
        /\ checkins[i].employee_id = request.user
        /\ Given(request.start_date)
              => DayOf(request.start_date) <= checkins[i].checkin_time \div 86400
        /\ Given(request.end_date)
              => checkins[i].checkin_time \div 86400 <= DayOf(request.end_date)}

(* C20: the history of an employee with optional start_date and end_date *)
(* returns exactly the employee's check-ins whose calendar date of       *)
(* checkin_time is from start_date to end_date, both inclusive, a bound  *)
(* that is absent not restricting, each once, and no check-in of another *)
(* employee.                                                             *)
C20_HistoryInRange ==
    last.op = "history"
        => /\ {last.rows[k] : k \in DOMAIN last.rows} = InRange(last.request)
           /\ Len(last.rows) = Cardinality(InRange(last.request))

(* C20 witness: a history with both bounds that returns a check-in made  *)
(* on the day of end_date and leaves out another check-in of the table   *)
C20_Witness ==
    /\ last.op = "history"
    /\ Given(last.request.start_date)
    /\ Given(last.request.end_date)
    /\ \E k \in DOMAIN last.rows :
          checkins[last.rows[k]].checkin_time \div 86400 = DayOf(last.request.end_date)
    /\ Len(last.rows) < Len(checkins)

(* the check-ins of the employee within the trailing seven days *)
TrailingWeek(e) ==
    {i \in RowIds : /\ checkins[i].employee_id = e
                    /\ now - checkins[i].checkin_time <= 7 * 86400}

(* C21: the weekly stats of an employee give, as total_checkins, the     *)
(* number of the employee's check-ins made within the trailing 7 days,   *)
(* and as unique_clients the number of distinct clients of exactly those *)
(* check-ins; so unique_clients <= total_checkins and both are 0 when    *)
(* there is none.                                                        *)
C21_WeekStats ==
    last.op = "week"
        => /\ last.week_stats.total_checkins
                 = Cardinality(TrailingWeek(last.request.user))
           /\ \E clientIds \in SUBSET DOMAIN clients :
                 /\ \A c \in DOMAIN clients :
                       c \in clientIds <=>
                          \E i \in TrailingWeek(last.request.user) :
                             checkins[i].client_id = c
                 /\ last.week_stats.unique_clients = Cardinality(clientIds)
           /\ last.week_stats.unique_clients <= last.week_stats.total_checkins
           /\ TrailingWeek(last.request.user) = {}
                 => (/\ last.week_stats.total_checkins = 0
                     /\ last.week_stats.unique_clients = 0)

(* C21 witness: weekly stats of an employee with a check-in made exactly *)
(* seven days before and one made earlier than that                      *)
C21_Witness ==
    /\ last.op = "week"
    /\ last.week_stats.total_checkins = 1
    /\ \E i, j \in RowIds :
          /\ checkins[i].employee_id = last.request.user
          /\ checkins[j].employee_id = last.request.user
          /\ now - checkins[i].checkin_time = 7 * 86400
          /\ now - checkins[j].checkin_time > 7 * 86400

(* C22: the geodistance of a point to itself is 0, for every coordinate  *)
(* pair.                                                                 *)
C22_DistanceToSelf ==
    (last.op = "distance" /\ last.from = last.to) => last.distance = 0

(* C22 witness: a point away from the equator and the prime meridian     *)
(* measured to itself                                                     *)
C22_Witness ==
    /\ last.op = "distance"
    /\ last.from = last.to
    /\ last.from[1] # 0
    /\ last.from[2] # 0

(* C23: the geodistance is symmetric: measuring from b to a gives what   *)
(* measuring from a to b gave.                                           *)
C23_DistanceSymmetric ==
    [][(/\ last.op = "distance"
        /\ last'.op = "distance"
        /\ last'.from = last.to
        /\ last'.to = last.from)
          => last'.distance = last.distance]_vars

(* C23 witness: a measurement between two points of different latitude   *)
(* and longitude, a positive distance                                    *)
C23_Witness ==
    /\ last.op = "distance"
    /\ last.from[1] # last.to[1]
    /\ last.from[2] # last.to[2]
    /\ last.distance > 0

(* a checkout of the employee e takes a step: a request in flight goes   *)
(* on, or one comes in and is answered at once                           *)
CheckoutSteps(e) ==
    \/ \E r \in InFlight : r.op = "checkout" /\ r.emp = e /\ Steps(r)
    \/ last'.op = "checkout" /\ last'.emp = e

(* C24: a successful checkout of an employee changes only the status and *)
(* the checkout_time of the employee's one active record: every other    *)
(* field of that record and every other record stay as they were.        *)
C24_CheckoutFrame ==
    [][\A e \in Employees :
          (CheckoutSteps(e) /\ checkins' # checkins)
             => /\ DOMAIN checkins' = RowIds
                /\ \E i \in ActiveIds(e) :
                      /\ ActiveIds(e) = {i}
                      /\ \A j \in RowIds \ {i} : checkins'[j] = checkins[j]
                      /\ checkins'[i] =
                            [checkins[i] EXCEPT
                               !.status = checkins'[i].status,
                               !.checkout_time = checkins'[i].checkout_time]]_vars

(* the coordinates of an answer's request are both absent or both within *)
(* range: no handler rejects them                                        *)
CoordinatesPass(a) ==
    \/ a.latitude = UNDEF /\ a.longitude = UNDEF
    \/ isValidLatitude(a.latitude) /\ isValidLongitude(a.longitude)

(* C25: the rejections of a create are decided in a fixed order: a       *)
(* missing client_id is answered 400 first; then a client the employee   *)
(* is not assigned to is answered 403, whether or not the employee holds *)
(* an active check-in; only then an active check-in is answered 400.     *)
C25_RejectionOrder ==
    (last.op = "create" /\ CoordinatesPass(last))
       => /\ ~Truthy(last.client_id)
               => last.status = 400 /\ last.message = Invalid.message
          /\ (Truthy(last.client_id) /\ ~isAssigned(last.emp, last.client_id))
               => last.status = 403
          /\ last.message = AlreadyActive.message
               => isAssigned(last.emp, last.client_id)

(* the sum of total_checkins over the entries of a breakdown *)
RECURSIVE SumOfTotals(_)
SumOfTotals(entries) ==
    IF entries = <<>> THEN 0
    ELSE Head(entries).total_checkins + SumOfTotals(Tail(entries))

(* the number of entries in the checkins lists of a breakdown *)
RECURSIVE SumOfLists(_)
SumOfLists(entries) ==
    IF entries = <<>> THEN 0
    ELSE Cardinality(Head(entries).checkins) + SumOfLists(Tail(entries))

(* C26: in every daily summary, with or without an employee filter, the  *)
(* team's total_checkins is the sum of total_checkins over the           *)
(* breakdown, and is the number of entries of the per-employee checkins  *)
(* lists.                                                                *)
C26_TotalsAgree ==
    IsReport(last)
        => /\ last.team_summary.total_checkins = SumOfTotals(last.employee_breakdown)
           /\ last.team_summary.total_checkins = SumOfLists(last.employee_breakdown)

(* C26 witness: a report with an employee filter whose one entry lists   *)
(* two check-ins, one of them without a distance                         *)
C26_Witness ==
    /\ IsReport(last)
    /\ Given(last.request.employee_id)
    /\ last.team_summary.total_checkins = 2
    /\ Len(last.employee_breakdown) = 1
    /\ \E i \in last.employee_breakdown[1].checkins :
          checkins[i].distance_from_client = NULLV

(* C27: in every daily summary, total_employees is the number of entries *)
(* of employee_breakdown, also when an employee filter is given, and     *)
(* also when the filter names nobody of the manager's team.              *)
C27_EmployeesAgree ==
    IsReport(last)
        => last.team_summary.total_employees = Len(last.employee_breakdown)

(* ---------------------------------------------------------------------- *)
(* Properties of the transactions *)

(* the step answers the request r of the transactional router, which     *)
(* has issued BEGIN IMMEDIATE                                            *)
AnswersBegun(r) ==
    /\ variant = "tx"
    /\ r.op \in {"create", "checkout"}
    /\ Steps(r)
    /\ last' # NoResp

(* C28: a create or checkout request that has issued BEGIN IMMEDIATE     *)
(* answers with its one COMMIT or ROLLBACK: the statement before the     *)
(* answer finds the transaction open and ends it, on every path.         *)
C28_OneCommitOrRollback ==
    [][\A r \in InFlight : AnswersBegun(r) => (inTx /\ ~inTx')]_vars

(* the request q is between its BEGIN IMMEDIATE and its COMMIT or        *)
(* ROLLBACK                                                              *)
InTransaction(q) ==
    variant = "tx" /\ q.pc \in {"begun", "active", "inserted", "updated"}

(* the row the create request r has inserted is in the table after the   *)
(* step                                                                  *)
OwnRowLeft(r) ==
    /\ r.id \in DOMAIN checkins'
    /\ checkins'[r.id].employee_id = r.emp
    /\ Num(checkins'[r.id].client_id) = r.client_id

(* a create that answers 500 leaves no row of its own *)
FailedCreateLeavesNoRow ==
    \A r \in InFlight :
        (r.op = "create" /\ Steps(r) /\ last' = Response(r, Failed))
            => ~OwnRowLeft(r)

(* the ROLLBACK of the catch block of r leaves the table and the         *)
(* transaction of a different request in flight as they were             *)
CatchSparesOthers ==
    \A r \in InFlight :
        (r.pc = "catch" /\ Steps(r) /\ \E q \in InFlight : InTransaction(q))
            => checkins' = checkins /\ inTx' = inTx

(* C29: under any interleaving of the requests on the one connection, a  *)
(* create that answers 500 has left no check-in row of its own in the    *)
(* table, and the ROLLBACK of a request's error path neither discards    *)
(* the writes of a different request in flight nor ends its transaction. *)
C29_ErrorPathIsolated ==
    [][FailedCreateLeavesNoRow /\ CatchSparesOthers]_vars

(* ---------------------------------------------------------------------- *)
(* Properties of the tokens *)

(* the payload carries the id, email, role and name of the user *)
Carries(payload, user) ==
    /\ payload.t = "object"
    /\ {"id", "email", "role", "name"} \subseteq DOMAIN payload
    /\ payload.id = user.id
    /\ payload.email = user.email
    /\ payload.role = user.role
    /\ payload.name = user.name

(* the token is the base64 of the JSON text of an object that has an exp *)
(* no earlier than the instant t                                         *)
ExpiresNoEarlierThan(token, t) ==
    /\ token.t = "base64"
    /\ token.of.t = "json"
    /\ \E i \in DOMAIN token.of.members :
          token.of.members[i][1] = "exp" /\ token.of.members[i][2] >= t

(* C30: verifyToken of a token createToken made for a user gives a       *)
(* payload with that user's id, email, role and name while fewer than 24 *)
(* hours have passed since the creation, and null once more have passed; *)
(* and verifyToken gives a payload only for a token that has an expiry,  *)
(* one that has not passed, and null for every other token.              *)
C30_VerifyToken ==
    last.op = "verified"
        => /\ (last.user # NoUser /\ last.at - last.created < 24 * 60 * 60)
                 => Carries(last.result, last.user)
           /\ (last.user # NoUser /\ last.at - last.created > 24 * 60 * 60)
                 => last.result.t = "null"
           /\ last.result.t # "null"
                 => ExpiresNoEarlierThan(last.token, last.at)

====
